---- MODULE Spec2Model ----
(***************************************************************************)
(* Model of the inverter monitor (src/src/monitor.py) and of the view it   *)
(* has of the device client wrapper (src/src/inverter_wrapper.py).         *)
(*                                                                         *)
(* Voltages are integers in tenths of a volt (56.6 V is 566).              *)
(* One action stands for one whole iteration of InverterMonitor.run.       *)
(* The variables events, battery_events, errors, commands, ramps,          *)
(* lvp_called, status, sample and pre record what the last step did: they  *)
(* are overwritten by every step of the thread and observe the handlers    *)
(* and the device without influencing the program.                         *)
(***************************************************************************)
EXTENDS Integers, Sequences, FiniteSets, TLC

\* ------------------------------------------------------------------ bounds
MaxLevels == 3

\* threads that call the wrapper's exec: the poll loop and the host's
MaxCallers == 2

\* the count of polls started after stop() is not followed beyond this
MaxCounted == 2

\* current levels a device may support, and a configuration may name
Levels == { 10 * i : i \in 1..MaxLevels }

\* battery voltages (tenths of a volt) around every threshold of the code
Voltages == { 445, 449, 450, 469, 470, 480, 539, 540, 565, 566, 567 }

Loads == { 18, 300 }

\* ------------------------------------------------------------ enumerations
None == "None"

\* active_current = None, and the current of an event that carries none
NoCurrent == 0

DISCHARGING == "DISCHARGING"
CHARGING == "CHARGING"
DO_NOTHING == "DO_NOTHING"
BatteryPowerDirection == { DISCHARGING, CHARGING, DO_NOTHING }

AC_CHARGING_UNAVAILABLE_BECAUSE_SOLAR == "AC_CHARGING_UNAVAILABLE_BECAUSE_SOLAR"
AC_NOT_CHARGING == "AC_NOT_CHARGING"
AC_CHARGING_STARTED == "AC_CHARGING_STARTED"
AC_DISCONNECTED == "AC_DISCONNECTED"
AC_CURRENT_CHANGED == "AC_CURRENT_CHANGED"
AC_CHARGING_FINISHED == "AC_CHARGING_FINISHED"
ChargingEvent == { AC_CHARGING_UNAVAILABLE_BECAUSE_SOLAR, AC_NOT_CHARGING,
                   AC_CHARGING_STARTED, AC_DISCONNECTED, AC_CURRENT_CHANGED,
                   AC_CHARGING_FINISHED }

NOT_CHARGING == "NOT_CHARGING"
AC_BUT_SOLAR == "AC_BUT_SOLAR"
AC_WAITING == "AC_WAITING"
AC_OK == "AC_OK"
AC_DONE == "AC_DONE"
ChargingState == { NOT_CHARGING, AC_BUT_SOLAR, AC_WAITING, AC_OK, AC_DONE }

NORMAL == "NORMAL"
LOW == "LOW"
CRITICAL == "CRITICAL"
BatteryState == { NORMAL, LOW, CRITICAL }

\* what one call of the wrapper's exec gives its caller: a response whose
\* result is "ok" or not, an InverterError, or any other exception
ExecOutcomes == { "ok", "notok", "InverterError", "Exception" }

\* the battery_power_direction literal of a get-status response
PdLiterals == { "Discharge", "Charge", "Do nothing", "?" }

VARIABLES
    pc,                 \* position of the thread in run
    interrupted,
    max_ac_current, min_ac_current, allowed_currents,
    currents, active_current, battery_state, charging_state,
    events,             \* calls of charging_event_handler in the last step
    battery_events,     \* calls of battery_event_handler in the last step
    errors,             \* calls of error_handler in the last step
    commands,           \* device commands issued in the last step
    ramps,              \* ramp sequences built by ac_charging_start
    lvp_called,         \* low_voltage_program was called in the last step
    status,             \* what the last step's get-status gave
    raised,             \* the exception that ended the last step, if any
    sample,             \* the sample decoded in the last step
    pre,                \* the monitor's fields before the last step
    polls_after_stop,   \* iterations begun since stop() set the flag
    lock,               \* _lock: the caller that holds it, Free when none
    wpc,                \* position of every caller in the wrapper's exec
    wfailure,           \* the exception a caller's exec has caught
    wcreates,           \* how the calls of create of a caller's exec ended
    wresult             \* what a caller's last exec returned or raised

mvars == << pc, interrupted, max_ac_current, min_ac_current, allowed_currents,
            currents, active_current, battery_state, charging_state,
            events, battery_events, errors, commands, ramps, lvp_called,
            status, raised, sample, pre, polls_after_stop >>

wvars == << lock, wpc, wfailure, wcreates, wresult >>

vars == << mvars, wvars >>

Callers == 1..MaxCallers

\* _lock is not held
Free == 0

\* ----------------------------------------------------------------- helpers
RECURSIVE insert(_, _)
insert(x, s) ==
    IF s = << >> THEN << x >>
    ELSE IF x <= Head(s) THEN << x >> \o s
    ELSE << Head(s) >> \o insert(x, Tail(s))

\* list.sort()
RECURSIVE sort(_)
sort(s) == IF s = << >> THEN << >> ELSE insert(Head(s), sort(Tail(s)))

\* list.index(x): position (from 0) of the first x; the caller guarantees
\* membership
index(s, x) == (CHOOSE i \in 1..Len(s) : s[i] = x /\ \A j \in 1..(i - 1) : s[j] # x) - 1

\* s[lo:hi] of Python for 0 <= lo, 0 <= hi
slice(s, lo, hi) ==
    LET h == IF hi > Len(s) THEN Len(s) ELSE hi
    IN  IF lo >= h THEN << >> ELSE SubSeq(s, lo + 1, h)

Range(s) == { s[i] : i \in 1..Len(s) }

\* the device's answer to get-allowed-ac-charging-currents lists the levels
\* it supports from the highest to the lowest
RECURSIVE descending(_)
descending(S) ==
    IF S = {} THEN << >>
    ELSE LET m == CHOOSE x \in S : \A y \in S : y <= x
         IN  << m >> \o descending(S \ { m })

DeviceLists ==
    { descending(Levels) } \cup { descending(Levels \ { x }) : x \in Levels }

_pd_from_string(lit) ==
    CASE lit = "Discharge" -> DISCHARGING
      [] lit = "Charge" -> CHARGING
      [] lit = "Do nothing" -> DO_NOTHING
      [] OTHER -> "ValueError"

Event(e, c) == [ event |-> e, current |-> c ]
Command(name, arg, res) == [ command |-> name, arg |-> arg, result |-> res ]

\* the fields of the monitor together with what the step has done so far;
\* raised is the exception that is propagating, None when there is none
Locals ==
    [ charging_state |-> charging_state, battery_state |-> battery_state,
      currents |-> currents, active_current |-> active_current,
      events |-> << >>, battery_events |-> << >>, errors |-> << >>,
      commands |-> << >>, ramps |-> << >>, lvp_called |-> FALSE,
      raised |-> None ]

Fields ==
    [ charging_state |-> charging_state, battery_state |-> battery_state,
      currents |-> currents, active_current |-> active_current ]

\* set_ac_current_range: the first element is the maximum, the second the
\* minimum
set_ac_current_range(ac_current_range) ==
    [ max_ac_current |-> ac_current_range[1],
      min_ac_current |-> ac_current_range[2] ]

\* -------------------------------------------------------- charging program
stop_event(reason) ==
    CASE reason = AC_DONE -> AC_CHARGING_FINISHED
      [] reason = NOT_CHARGING -> AC_DISCONNECTED

ac_charging_stop(st, reason) ==
    LET s1 == [ st EXCEPT !.charging_state = reason,
                          !.events = Append(@, Event(stop_event(reason), NoCurrent)) ]
    IN  IF s1.currents # << >>
        THEN [ s1 EXCEPT !.currents = << >>, !.active_current = NoCurrent ]
        ELSE s1

\* a result that is not ok is logged and not raised: no error handler call
set_current_command_logs(st, current, res) ==
    LET s1 == [ st EXCEPT !.commands =
                   Append(@, Command("set-max-ac-charging-current", current, res)) ]
    IN  CASE res = "ok" ->
               [ s1 EXCEPT !.events = Append(@, Event(AC_CURRENT_CHANGED, current)) ]
          [] res = "notok" -> s1
          [] res = "InverterError" ->
               [ s1 EXCEPT !.errors = Append(@, current) ]
          [] OTHER ->
               [ s1 EXCEPT !.raised = "Exception" ]

\* the command of ac_charging_next_current and the report of its result
set_current_command(st, current, res) ==
    LET s1 == [ st EXCEPT !.commands =
                   Append(@, Command("set-max-ac-charging-current", current, res)) ]
    IN  CASE res = "ok" ->
               [ s1 EXCEPT !.events = Append(@, Event(AC_CURRENT_CHANGED, current)) ]
          [] res \in { "notok", "InverterError" } ->
               [ s1 EXCEPT !.errors = Append(@, current) ]
          [] OTHER ->
               [ s1 EXCEPT !.raised = "Exception" ]

\* pop(0) in place of pop(): the ramp is consumed from its lowest current
pop_index_first(s) == 1

\* list.pop(): the position of the element that is removed
pop_index(s) == Len(s)

ac_charging_next_current(st, res) ==
    IF st.currents = << >>
    THEN ac_charging_stop(st, AC_DONE)
    ELSE LET i == pop_index(st.currents)
             current == st.currents[i]
             rest == SubSeq(st.currents, 1, i - 1) \o
                     SubSeq(st.currents, i + 1, Len(st.currents))
         IN  set_current_command(
                 [ st EXCEPT !.currents = rest, !.active_current = current ],
                 current, res)

\* a slice that ends one element too late
ramp_slice_long(allowed, mn, mx) ==
    slice(allowed, index(allowed, mn), index(allowed, mx) + 2)

\* the ramp of ac_charging_start
ramp_slice(allowed, mn, mx) ==
    slice(allowed, index(allowed, mn), index(allowed, mx) + 1)

ac_charging_start(st, pd, res) ==
    LET s1 == IF pd = CHARGING
              THEN [ st EXCEPT !.charging_state = AC_OK,
                               !.events = Append(@, Event(AC_CHARGING_STARTED, NoCurrent)) ]
              ELSE [ st EXCEPT !.charging_state = AC_WAITING,
                               !.events = Append(@, Event(AC_NOT_CHARGING, NoCurrent)) ]
    IN  IF s1.currents = << >>
        THEN LET r == ramp_slice(allowed_currents, min_ac_current, max_ac_current)
             IN  ac_charging_next_current(
                     [ s1 EXCEPT !.currents = r, !.ramps = Append(@, r) ], res)
        ELSE s1

\* ">=" in place of ">": 10 A takes the higher bound
upper_bound_from_10(active) == IF active >= 10 THEN 566 ELSE 540

upper_bound(active) == IF active > 10 THEN 566 ELSE 540

program_not_charging(st, ac, solar, pd, res) ==
    IF ac /\ solar
    THEN [ st EXCEPT !.charging_state = AC_BUT_SOLAR,
                     !.events = Append(@, Event(AC_CHARGING_UNAVAILABLE_BECAUSE_SOLAR, NoCurrent)) ]
    ELSE IF ac THEN ac_charging_start(st, pd, res)
    ELSE st

program_ac_but_solar(st, ac, solar, pd, res) ==
    IF ~ac THEN ac_charging_stop(st, NOT_CHARGING)
    ELSE IF ~solar THEN ac_charging_start(st, pd, res)
    ELSE st

program_charging(st, ac, solar, v, pd, res) ==
    IF ~ac THEN ac_charging_stop(st, NOT_CHARGING)
    ELSE
      LET s1 == IF solar
                THEN [ st EXCEPT !.charging_state = AC_BUT_SOLAR,
                                 !.events = Append(@, Event(AC_CHARGING_UNAVAILABLE_BECAUSE_SOLAR, NoCurrent)) ]
                ELSE st
          state == IF pd = CHARGING THEN AC_OK ELSE AC_WAITING
          s2 == IF state # s1.charging_state
                THEN [ s1 EXCEPT !.charging_state = state,
                                 !.events = Append(@, Event(
                                     IF state = AC_OK THEN AC_CHARGING_STARTED
                                                      ELSE AC_NOT_CHARGING, NoCurrent)) ]
                ELSE s1
      IN  IF s2.active_current # NoCurrent /\ v >= upper_bound(s2.active_current)
          THEN ac_charging_next_current(s2, res)
          ELSE s2

\* AC_DONE handled like AC_BUT_SOLAR: charging restarts without a disconnect
program_done_restarts(st, ac, solar, pd, res) ==
    IF ~ac THEN ac_charging_stop(st, NOT_CHARGING)
    ELSE IF ~solar THEN ac_charging_start(st, pd, res)
    ELSE st

program_done(st, ac, solar, pd, res) ==
    IF ~ac THEN ac_charging_stop(st, NOT_CHARGING) ELSE st

ac_charging_program(st, ac, solar, v, pd, res) ==
    CASE st.charging_state = NOT_CHARGING -> program_not_charging(st, ac, solar, pd, res)
      [] st.charging_state = AC_BUT_SOLAR -> program_ac_but_solar(st, ac, solar, pd, res)
      [] st.charging_state \in { AC_OK, AC_WAITING } -> program_charging(st, ac, solar, v, pd, res)
      [] st.charging_state = AC_DONE -> program_done(st, ac, solar, pd, res)

\* ----------------------------------------------------- low voltage program
\* "<=" in place of "<" in the first test
classify_inclusive(v) ==
    IF v <= 450 THEN CRITICAL
    ELSE IF v < 470 THEN LOW
    ELSE NORMAL

classify(v) ==
    IF v < 450 THEN CRITICAL
    ELSE IF v < 470 THEN LOW
    ELSE NORMAL

\* the handler is invoked on every call, changed state or not
low_voltage_program_always(st, v, load_watts) ==
    LET state == classify(v)
    IN  [ st EXCEPT !.lvp_called = TRUE, !.battery_state = state,
                    !.battery_events = Append(@, << state, v, load_watts >>) ]

low_voltage_program(st, v, load_watts) ==
    LET state == classify(v)
        s1 == [ st EXCEPT !.lvp_called = TRUE ]
    IN  IF state # s1.battery_state
        THEN [ s1 EXCEPT !.battery_state = state,
                         !.battery_events = Append(@, << state, v, load_watts >>) ]
        ELSE s1

\* "and" in place of "or" in the test of line 129
run_battery_and(st, ac, v, load_watts, pd) ==
    IF ~ac /\ pd # CHARGING
    THEN low_voltage_program(st, v, load_watts)
    ELSE IF st.battery_state # NORMAL
         THEN [ st EXCEPT !.battery_state = NORMAL ]
         ELSE st

\* the battery part of an iteration of run
run_battery(st, ac, v, load_watts, pd) ==
    IF ~ac \/ pd # CHARGING
    THEN low_voltage_program(st, v, load_watts)
    ELSE IF st.battery_state # NORMAL
         THEN [ st EXCEPT !.battery_state = NORMAL ]
         ELSE st

\* the else branch of an iteration of run: a get-status response that is ok
run_status_ok(st, ac, solar, v, load_watts, lit, res) ==
    LET pd == _pd_from_string(lit)
    IN  IF pd = "ValueError"
        THEN [ st EXCEPT !.raised = "ValueError" ]
        ELSE LET s1 == ac_charging_program(st, ac, solar, v, pd, res)
             IN  IF s1.raised # None THEN s1
                 ELSE run_battery(s1, ac, v, load_watts, pd)

\* a failed get-status taken for a lost AC line
run_status_failed_stops(st, gs) ==
    IF gs = "Exception" THEN [ st EXCEPT !.raised = "Exception" ]
    ELSE IF st.charging_state # NOT_CHARGING THEN ac_charging_stop(st, NOT_CHARGING)
    ELSE st

\* an iteration of run whose get-status is not ok (logged) or raises: run
\* catches InverterError and nothing else
run_status_failed(st, gs) ==
    IF gs = "Exception" THEN [ st EXCEPT !.raised = "Exception" ] ELSE st

\* the body of the while loop of run, up to the sleep
run_iteration(st, gs, ac, solar, v, load_watts, lit, res) ==
    LET s0 == [ st EXCEPT !.commands = Append(@, Command("get-status", NoCurrent, gs)) ]
    IN  IF gs = "ok"
        THEN run_status_ok(s0, ac, solar, v, load_watts, lit, res)
        ELSE run_status_failed(s0, gs)

\* the range is refused only when both bounds are missing
valid_range_either(allowed, mx, mn) ==
    ~(mx \notin Range(allowed) /\ mn \notin Range(allowed))

\* run, lines 100-101: the range is refused when a bound is not allowed
valid_range(allowed, mx, mn) ==
    ~(mx \notin Range(allowed) \/ mn \notin Range(allowed))

\* ------------------------------------------------------------------ actions
Samples == [ ac : BOOLEAN, solar : BOOLEAN, v : Voltages, load_watts : Loads,
             pd : PdLiterals ]

NoSample == [ ac |-> FALSE, solar |-> FALSE, v |-> 0, load_watts |-> 0, pd |-> None ]

\* what exec gives its caller: the exception raised, with the place of the
\* try block that raised it, or the response returned
Failure(kind, place) == << kind, place >>

Response == << "ok", "return" >>

\* no exception caught, no result yet
NoFailure == << None, None >>

Init ==
    /\ pc = "start"
    /\ interrupted = FALSE
    /\ \E r \in Levels \X Levels :
          /\ max_ac_current = set_ac_current_range(r).max_ac_current
          /\ min_ac_current = set_ac_current_range(r).min_ac_current
    /\ allowed_currents = << >>
    /\ currents = << >>
    /\ active_current = NoCurrent
    /\ battery_state = NORMAL
    /\ charging_state = NOT_CHARGING
    /\ events = << >>
    /\ battery_events = << >>
    /\ errors = << >>
    /\ commands = << >>
    /\ ramps = << >>
    /\ lvp_called = FALSE
    /\ status = None
    /\ raised = None
    /\ sample = NoSample
    /\ pre = [ charging_state |-> NOT_CHARGING, battery_state |-> NORMAL,
               currents |-> << >>, active_current |-> NoCurrent ]
    /\ polls_after_stop = 0
    /\ lock = Free
    /\ wpc = [ t \in Callers |-> "idle" ]
    /\ wfailure = [ t \in Callers |-> NoFailure ]
    /\ wcreates = [ t \in Callers |-> << >> ]
    /\ wresult = [ t \in Callers |-> NoFailure ]

\* run, lines 97-109: the allowed currents, the validation, get-rated
\* (battery_under_voltage and charging_thresholds are stored and never read)
Startup ==
    /\ pc = "start"
    /\ \E list \in DeviceLists, allowed \in { "ok", "Exception" },
          rated \in { "ok", "Exception" } :
          LET a == Command("get-allowed-ac-charging-currents", NoCurrent, allowed)
              r == Command("get-rated", NoCurrent, rated)
              sorted == sort(list)
              valid == valid_range(sorted, max_ac_current, min_ac_current)
          IN  IF allowed # "ok"
              THEN /\ allowed_currents' = allowed_currents
                   /\ commands' = << a >>
                   /\ raised' = "Exception"
                   /\ pc' = "aborted"
              ELSE IF ~valid
              THEN /\ allowed_currents' = sorted
                   /\ commands' = << a >>
                   /\ raised' = "RuntimeError"
                   /\ pc' = "aborted"
              ELSE /\ allowed_currents' = sorted
                   /\ commands' = << a, r >>
                   /\ raised' = IF rated = "ok" THEN None ELSE "Exception"
                   /\ pc' = IF rated = "ok" THEN "check" ELSE "aborted"
    /\ pre' = Fields
    /\ status' = None
    /\ sample' = NoSample
    /\ events' = << >>
    /\ battery_events' = << >>
    /\ errors' = << >>
    /\ ramps' = << >>
    /\ lvp_called' = FALSE
    /\ UNCHANGED << interrupted, max_ac_current, min_ac_current, currents,
                    active_current, battery_state, charging_state,
                    polls_after_stop >>
    /\ UNCHANGED wvars

\* "while True": the flag is never read
Check_forever ==
    /\ pc = "check"
    /\ pc' = "body"
    /\ events' = << >>
    /\ battery_events' = << >>
    /\ errors' = << >>
    /\ commands' = << >>
    /\ ramps' = << >>
    /\ lvp_called' = FALSE
    /\ status' = None
    /\ raised' = None
    /\ sample' = NoSample
    /\ pre' = Fields
    /\ UNCHANGED << interrupted, max_ac_current, min_ac_current, allowed_currents,
                    currents, active_current, battery_state, charging_state,
                    polls_after_stop >>
    /\ UNCHANGED wvars

\* run, line 111: the test of the while loop; the record of the previous
\* step is dropped when a new iteration begins
Check ==
    /\ pc = "check"
    /\ IF interrupted
       THEN /\ pc' = "stopped"
            /\ UNCHANGED << events, battery_events, errors, commands, ramps,
                            lvp_called, status, raised, sample, pre >>
       ELSE /\ pc' = "body"
            /\ events' = << >>
            /\ battery_events' = << >>
            /\ errors' = << >>
            /\ commands' = << >>
            /\ ramps' = << >>
            /\ lvp_called' = FALSE
            /\ status' = None
            /\ raised' = None
            /\ sample' = NoSample
            /\ pre' = Fields
    /\ UNCHANGED << interrupted, max_ac_current, min_ac_current, allowed_currents,
                    currents, active_current, battery_state, charging_state,
                    polls_after_stop >>
    /\ UNCHANGED wvars

\* run, lines 112-140: one iteration and its sleep, the sample being one
\* of S
IterationOn(S) ==
    /\ pc = "body"
    /\ \E gs \in ExecOutcomes :
       \E smp \in IF gs = "ok" THEN S ELSE { NoSample },
          res \in IF gs = "ok" THEN ExecOutcomes ELSE { "ok" } :
          LET st == run_iteration(Locals, gs, smp.ac, smp.solar, smp.v,
                                  smp.load_watts, smp.pd, res)
          IN  /\ charging_state' = st.charging_state
              /\ battery_state' = st.battery_state
              /\ currents' = st.currents
              /\ active_current' = st.active_current
              /\ events' = st.events
              /\ battery_events' = st.battery_events
              /\ errors' = st.errors
              /\ commands' = st.commands
              /\ ramps' = st.ramps
              /\ lvp_called' = st.lvp_called
              /\ status' = gs
              /\ raised' = st.raised
              /\ sample' = smp
              /\ pc' = IF st.raised = None THEN "check" ELSE "crashed"
    /\ pre' = Fields
    /\ polls_after_stop' =
          IF interrupted /\ polls_after_stop < MaxCounted
          THEN polls_after_stop + 1 ELSE polls_after_stop
    /\ UNCHANGED << interrupted, max_ac_current, min_ac_current, allowed_currents >>
    /\ UNCHANGED wvars

Iteration == IterationOn(Samples)

\* stop(), from any other thread
Stop ==
    /\ ~interrupted
    /\ interrupted' = TRUE
    /\ UNCHANGED << pc, max_ac_current, min_ac_current, allowed_currents,
                    currents, active_current, battery_state, charging_state,
                    events, battery_events, errors, commands, ramps, lvp_called,
                    status, raised, sample, pre, polls_after_stop >>
    /\ UNCHANGED wvars

Next == Startup \/ Check \/ Iteration \/ Stop

Spec == Init /\ [][Next]_vars

\* the monitor constructed with the range (20, 10)
ShutdownInit ==
    /\ Init
    /\ max_ac_current = set_ac_current_range(<< 20, 10 >>).max_ac_current
    /\ min_ac_current = set_ac_current_range(<< 20, 10 >>).min_ac_current

\* samples with a voltage below every threshold or above every threshold
ShutdownSamples ==
    [ ac : BOOLEAN, solar : BOOLEAN, v : { 445, 567 }, load_watts : { 300 },
      pd : PdLiterals ]

ShutdownIteration == IterationOn(ShutdownSamples)

ShutdownNext == Startup \/ Check \/ ShutdownIteration \/ Stop

\* the thread of run is scheduled: when it can take a step it takes it
ShutdownSpec ==
    /\ ShutdownInit
    /\ [][ShutdownNext]_vars
    /\ WF_vars(Startup)
    /\ WF_vars(Check)
    /\ WF_vars(ShutdownIteration)

\* ------------------------------------------------- InverterClientWrapper.exec
\* what the calls made on the client inside exec can do
ClientOutcomes == { "ok", "InverterError", "Exception" }

\* a caller enters exec
Call(t) ==
    /\ wpc[t] = "idle"
    /\ wpc' = [ wpc EXCEPT ![t] = "lock" ]
    /\ wfailure' = [ wfailure EXCEPT ![t] = NoFailure ]
    /\ wcreates' = [ wcreates EXCEPT ![t] = << >> ]
    /\ wresult' = [ wresult EXCEPT ![t] = NoFailure ]
    /\ UNCHANGED lock
    /\ UNCHANGED mvars

\* a lock of its own for every call: nothing to wait for
Acquire_own_lock(t) ==
    /\ wpc[t] = "lock"
    /\ lock' = t
    /\ wpc' = [ wpc EXCEPT ![t] = "format" ]
    /\ UNCHANGED << wfailure, wcreates, wresult >>
    /\ UNCHANGED mvars

\* with _lock: the caller waits until the lock is free and takes it
Acquire(t) ==
    /\ wpc[t] = "lock"
    /\ lock = Free
    /\ lock' = t
    /\ wpc' = [ wpc EXCEPT ![t] = "format" ]
    /\ UNCHANGED << wfailure, wcreates, wresult >>
    /\ UNCHANGED mvars

\* acquire() and release() around the return only: a raise keeps the lock
Leave_on_return(t, result) ==
    /\ lock' = IF result = Response THEN Free ELSE lock
    /\ wpc' = [ wpc EXCEPT ![t] = "idle" ]
    /\ wresult' = [ wresult EXCEPT ![t] = result ]

\* the exit of the with block on a return or a raise: the lock is released
\* and the caller has its result
Leave(t, result) ==
    /\ lock' = Free
    /\ wpc' = [ wpc EXCEPT ![t] = "idle" ]
    /\ wresult' = [ wresult EXCEPT ![t] = result ]

\* a call on the client at one place of the try block: on success exec goes
\* on to the next place, an InverterError is raised again at once, any other
\* exception leads to the reconnect
ClientCall(t, place, next) ==
    /\ wpc[t] = place
    /\ \E o \in ClientOutcomes :
          CASE o = "ok" ->
                 /\ wpc' = [ wpc EXCEPT ![t] = next ]
                 /\ UNCHANGED << lock, wfailure, wresult >>
            [] o = "InverterError" ->
                 /\ wfailure' = [ wfailure EXCEPT ![t] = Failure(o, place) ]
                 /\ Leave(t, Failure(o, place))
            [] OTHER ->
                 /\ wfailure' = [ wfailure EXCEPT ![t] = Failure(o, place) ]
                 /\ wpc' = [ wpc EXCEPT ![t] = "create" ]
                 /\ UNCHANGED << lock, wresult >>
    /\ UNCHANGED wcreates
    /\ UNCHANGED mvars

\* self._inverter.format(format)
Format(t) == ClientCall(t, "format", "exec")

\* self._inverter.exec(command, arguments)
Exec(t) == ClientCall(t, "exec", "loads")

\* json.loads(response) and the return
JsonLoads(t) ==
    /\ wpc[t] = "loads"
    /\ \/ /\ Leave(t, Response)
          /\ UNCHANGED wfailure
       \/ /\ wfailure' = [ wfailure EXCEPT ![t] = Failure("Exception", "loads") ]
          /\ wpc' = [ wpc EXCEPT ![t] = "create" ]
          /\ UNCHANGED << lock, wresult >>
    /\ UNCHANGED wcreates
    /\ UNCHANGED mvars

\* create() outside a try: its own failure is what the caller gets
Create_unguarded(t) ==
    /\ wpc[t] = "create"
    /\ \E o \in { "ok", "Exception" } :
          /\ wcreates' = [ wcreates EXCEPT ![t] = Append(@, o) ]
          /\ Leave(t, IF o = "ok" THEN wfailure[t] ELSE Failure("Exception", "create"))
    /\ UNCHANGED wfailure
    /\ UNCHANGED mvars

\* the reconnect of lines 38-44: create() succeeds or fails, its failure is
\* dropped, and the exception that was caught is raised again
Create(t) ==
    /\ wpc[t] = "create"
    /\ \E o \in { "ok", "Exception" } :
          /\ wcreates' = [ wcreates EXCEPT ![t] = Append(@, o) ]
          /\ Leave(t, wfailure[t])
    /\ UNCHANGED wfailure
    /\ UNCHANGED mvars

WrapperNext ==
    \E t \in Callers :
        Call(t) \/ Acquire(t) \/ Format(t) \/ Exec(t) \/ JsonLoads(t) \/ Create(t)

WrapperSpec == Init /\ [][WrapperNext]_vars

\* every call made on the client returns or raises, and a caller that finds
\* the lock free again and again is granted it
WrapperFairSpec ==
    /\ Init
    /\ [][WrapperNext]_vars
    /\ \A t \in Callers :
          /\ SF_vars(Acquire(t))
          /\ WF_vars(Format(t))
          /\ WF_vars(Exec(t))
          /\ WF_vars(JsonLoads(t))
          /\ WF_vars(Create(t))

\* ================================================================== claims
SetCurrentCommands ==
    { i \in 1..Len(commands) : commands[i].command = "set-max-ac-charging-current" }

Emitted(e) == Cardinality({ i \in 1..Len(events) : events[i].event = e })

\* the last step was an iteration that ran to its sleep on an ok get-status
Successful == status = "ok" /\ raised = None

DeclaredEdges ==
    ({ NOT_CHARGING } \X { AC_BUT_SOLAR, AC_OK, AC_WAITING })
    \cup ({ AC_BUT_SOLAR } \X { NOT_CHARGING, AC_OK, AC_WAITING })
    \cup ({ AC_OK, AC_WAITING } \X { NOT_CHARGING, AC_BUT_SOLAR, AC_OK, AC_WAITING, AC_DONE })
    \cup ({ AC_DONE } \X { NOT_CHARGING })

\* C1: with min_ac_current <= max_ac_current, the charging state after an
\* iteration differs from the one before it only along a declared edge
C1_DeclaredEdgesOnly ==
    (min_ac_current <= max_ac_current /\ charging_state # pre.charging_state)
        => << pre.charging_state, charging_state >> \in DeclaredEdges

C1_Witness ==
    /\ min_ac_current < max_ac_current
    /\ status = "ok"
    /\ pre.charging_state = AC_WAITING
    /\ charging_state = AC_DONE

\* C2: after a call of ac_charging_program made in AC_OK or AC_WAITING with
\* a voltage below the upper bound of the active current, a further call
\* with the same sample emits nothing, commands nothing and changes nothing
C2_Idempotent ==
    ( /\ Successful
      /\ pre.charging_state \in { AC_OK, AC_WAITING }
      /\ pre.active_current # NoCurrent
      /\ sample.v < upper_bound(pre.active_current) )
    => \A res \in ExecOutcomes :
          LET st == ac_charging_program(Locals, sample.ac, sample.solar, sample.v,
                                        _pd_from_string(sample.pd), res)
          IN  /\ st.events = << >>
              /\ st.commands = << >>
              /\ st.errors = << >>
              /\ st.charging_state = charging_state
              /\ st.currents = currents
              /\ st.active_current = active_current

\* C3: an advance of a running ramp lowers active_current strictly; the ramp
\* is built only where none is in progress, never from AC_OK or AC_WAITING,
\* whose changes leave the remaining currents alone; AC_CHARGING_FINISHED is
\* emitted once, exactly by the step that enters AC_DONE
C3_RampMonotone ==
    /\ (ramps = << >> /\ SetCurrentCommands # {})
          => /\ pre.active_current # NoCurrent
             /\ active_current # NoCurrent
             /\ active_current < pre.active_current
    /\ Len(ramps) <= 1
    /\ ramps # << >>
          => /\ pre.charging_state \in { NOT_CHARGING, AC_BUT_SOLAR }
             /\ pre.currents = << >>
    /\ charging_state \in { NOT_CHARGING, AC_BUT_SOLAR } => currents = << >>
    /\ ( /\ pre.charging_state \in { AC_OK, AC_WAITING }
         /\ charging_state \in { AC_OK, AC_WAITING }
         /\ SetCurrentCommands = {} )
          => currents = pre.currents /\ active_current = pre.active_current
    /\ Emitted(AC_CHARGING_FINISHED) =
          IF charging_state = AC_DONE /\ pre.charging_state # AC_DONE THEN 1 ELSE 0

C3_Witness ==
    /\ ramps = << >>
    /\ SetCurrentCommands # {}
    /\ pre.charging_state = AC_OK
    /\ charging_state = AC_WAITING
    /\ pre.active_current = 30
    /\ active_current = 20

\* C4: in NOT_CHARGING and in AC_DONE the remaining currents are empty and
\* active_current is absent
C4_ProgramCleared ==
    charging_state \in { NOT_CHARGING, AC_DONE }
        => currents = << >> /\ active_current = NoCurrent

\* C5: a ramp advance whose command fails leaves active_current as it was
C5_FailedCommandKeepsCurrent ==
    (\E i \in SetCurrentCommands : commands[i].result \in { "notok", "InverterError" })
        => active_current = pre.active_current

\* C6: once startup has succeeded no fault of an iteration ends the loop
C6_LoopSurvivesFaults == pc # "crashed"

\* C7: an iteration whose get-status fails changes no field, invokes no
\* handler and issues no set-max-ac-charging-current
C7_FailedPollChangesNothing ==
    status \in { "notok", "InverterError", "Exception" }
        => /\ Fields = pre
           /\ events = << >>
           /\ battery_events = << >>
           /\ errors = << >>
           /\ SetCurrentCommands = {}

C7_Witness ==
    /\ status = "InverterError"
    /\ pc = "check"
    /\ charging_state = AC_WAITING
    /\ battery_state = LOW
    /\ currents # << >>

\* C8: every ramp built by ac_charging_start contains min_ac_current and
\* max_ac_current
C8_BoundContainment ==
    \A i \in 1..Len(ramps) :
        min_ac_current \in Range(ramps[i]) /\ max_ac_current \in Range(ramps[i])

InBounds(c) ==
    /\ c \in Range(allowed_currents)
    /\ min_ac_current <= c
    /\ c <= max_ac_current

\* C9: active_current is absent or an allowed current between
\* min_ac_current and max_ac_current, and so is every commanded current
C9_ActiveCurrentInBounds ==
    /\ active_current = NoCurrent \/ InBounds(active_current)
    /\ \A i \in SetCurrentCommands : InBounds(commands[i].arg)

C9_Witness ==
    /\ min_ac_current < max_ac_current
    /\ active_current = min_ac_current
    /\ SetCurrentCommands # {}

\* C10: after a successful iteration with AC present and power direction
\* CHARGING battery_state is NORMAL and low_voltage_program was not called;
\* after any other successful iteration battery_state is the class of the
\* sample's voltage
C10_BatteryStateAfterCycle ==
    Successful =>
        IF sample.ac /\ sample.pd = "Charge"
        THEN battery_state = NORMAL /\ ~lvp_called
        ELSE /\ lvp_called
             /\ battery_state = IF sample.v < 450 THEN CRITICAL
                                ELSE IF sample.v < 470 THEN LOW
                                ELSE NORMAL

C10_Witness ==
    /\ Successful
    /\ sample.ac
    /\ sample.pd = "Charge"
    /\ sample.v = 449
    /\ pre.battery_state = CRITICAL
    /\ battery_state = NORMAL

\* C11: an iteration that forces battery_state to NORMAL because AC is
\* present and charging invokes the battery handler, with NORMAL, exactly
\* when battery_state was not NORMAL before
C11_ForcedNormalNotifies ==
    (Successful /\ sample.ac /\ sample.pd = "Charge")
        => IF pre.battery_state # NORMAL
           THEN /\ Len(battery_events) = 1
                /\ battery_events[1][1] = NORMAL
           ELSE battery_events = << >>

\* the class of a voltage as the claims state it, in tenths of a volt
ClaimedClass(v) ==
    IF v < 450 THEN CRITICAL ELSE IF v < 470 THEN LOW ELSE NORMAL

\* C12: low_voltage_program invokes the battery handler exactly when the
\* class of the sample differs from the stored battery_state, once, with the
\* new state and the sample's voltage and load
C12_HandlerOnChangeOnly ==
    /\ lvp_called =>
          battery_events =
              IF battery_state # pre.battery_state
              THEN << << battery_state, sample.v, sample.load_watts >> >>
              ELSE << >>
    /\ (lvp_called /\ ClaimedClass(sample.v) # pre.battery_state)
          => battery_state = ClaimedClass(sample.v)
    /\ (lvp_called /\ ClaimedClass(sample.v) = pre.battery_state)
          => battery_events = << >>
    /\ (lvp_called /\ ~sample.ac /\ sample.v = 445 /\ sample.load_watts = 300
           /\ pre.battery_state = NORMAL)
          => battery_events = << << CRITICAL, 445, 300 >> >>
    /\ (lvp_called /\ ~sample.ac /\ sample.v = 480 /\ sample.load_watts = 300
           /\ pre.battery_state = CRITICAL)
          => battery_events = << << NORMAL, 480, 300 >> >>

C12_Witness ==
    /\ lvp_called
    /\ ~sample.ac
    /\ sample.v = 480
    /\ sample.load_watts = 300
    /\ pre.battery_state = CRITICAL
    /\ battery_events = << << NORMAL, 480, 300 >> >>

\* C13: whatever the load and the previous battery state, a call of
\* low_voltage_program leaves CRITICAL below 45 V, LOW from 45 V to below
\* 47 V and NORMAL from 47 V; 44.9 is CRITICAL, 45.0 and 46.9 are LOW, 47.0
\* is NORMAL
C13_Classification ==
    lvp_called =>
        /\ sample.v < 450 => battery_state = CRITICAL
        /\ (450 <= sample.v /\ sample.v < 470) => battery_state = LOW
        /\ sample.v >= 470 => battery_state = NORMAL
        /\ sample.v = 449 => battery_state = CRITICAL
        /\ sample.v \in { 450, 469 } => battery_state = LOW
        /\ sample.v = 470 => battery_state = NORMAL

C13_Witness ==
    /\ lvp_called
    /\ sample.v = 450
    /\ sample.load_watts = 18
    /\ pre.battery_state = CRITICAL
    /\ battery_state = LOW

\* the allowed currents from min_ac_current to max_ac_current, ascending
IsSliceMinToMax(r) ==
    /\ Range(r) = { c \in Range(allowed_currents) :
                       min_ac_current <= c /\ c <= max_ac_current }
    /\ \A i \in 1..(Len(r) - 1) : r[i] < r[i + 1]

\* a start: an evaluation in NOT_CHARGING or AC_BUT_SOLAR of a sample with
\* AC and no solar, whose command, if any, the device accepted
StartedWithAcceptedCommand ==
    /\ Successful
    /\ pre.charging_state \in { NOT_CHARGING, AC_BUT_SOLAR }
    /\ sample.ac
    /\ ~sample.solar
    /\ \A i \in SetCurrentCommands : commands[i].result = "ok"

\* C14: a start ends in AC_OK when the direction is CHARGING and in
\* AC_WAITING otherwise, builds the ramp as the allowed currents from min to
\* max, sets active_current to max_ac_current, commands (0, max) once and
\* emits AC_CHARGING_STARTED (or AC_NOT_CHARGING) then AC_CURRENT_CHANGED(max);
\* min 10, max 30 in [5 .. 35] leaves 30 active and [10, 15, 20, 25]
C14_RampStart ==
    /\ StartedWithAcceptedCommand =>
          /\ charging_state = IF sample.pd = "Charge" THEN AC_OK ELSE AC_WAITING
          /\ Len(ramps) = 1
          /\ IsSliceMinToMax(ramps[1])
          /\ active_current = max_ac_current
          /\ Cardinality(SetCurrentCommands) = 1
          /\ \A i \in SetCurrentCommands : commands[i].arg = max_ac_current
          /\ events = << Event(IF sample.pd = "Charge" THEN AC_CHARGING_STARTED
                                                       ELSE AC_NOT_CHARGING, NoCurrent),
                         Event(AC_CURRENT_CHANGED, max_ac_current) >>
    /\ LET r == ramp_slice(<< 5, 10, 15, 20, 25, 30, 35 >>, 10, 30)
           st == ac_charging_next_current([ Locals EXCEPT !.currents = r ], "ok")
       IN  /\ r = << 10, 15, 20, 25, 30 >>
           /\ st.active_current = 30
           /\ st.currents = << 10, 15, 20, 25 >>

\* an advance: a call of ac_charging_next_current, which commands a current
\* or, with no current left, finishes
Advances == Cardinality(SetCurrentCommands) + Emitted(AC_CHARGING_FINISHED)

\* C15: an iteration that starts in AC_OK or AC_WAITING with AC present
\* advances the ramp, once, exactly when active_current is set and the
\* voltage is at least 56.6 V for an active current above 10 A and 54 V
\* otherwise; 56.7 V at 30 A moves to the next lower current and reports it,
\* 56.5 V does nothing, and 54 V with the ramp consumed down to 10 A ends in
\* AC_DONE with AC_CHARGING_FINISHED
C15_AdvanceThreshold ==
    /\ ( /\ status = "ok"
         /\ raised # "ValueError"
         /\ pre.charging_state \in { AC_OK, AC_WAITING }
         /\ sample.ac )
       => /\ Advances <= 1
          /\ Advances = 1 <=>
                /\ pre.active_current # NoCurrent
                /\ \/ pre.active_current > 10 /\ sample.v >= 566
                   \/ pre.active_current <= 10 /\ sample.v >= 540
          /\ (pre.active_current = 30 /\ sample.v = 567 /\ pre.currents # << >>)
                => /\ active_current = pre.currents[Len(pre.currents)]
                   /\ active_current < 30
                   /\ \A i \in SetCurrentCommands : commands[i].result = "ok" =>
                         events[Len(events)] = Event(AC_CURRENT_CHANGED, active_current)
          /\ (pre.active_current = 30 /\ sample.v = 565)
                => /\ Advances = 0
                   /\ active_current = 30
                   /\ currents = pre.currents
          /\ (pre.active_current = 10 /\ pre.currents = << >> /\ sample.v >= 540)
                => /\ charging_state = AC_DONE
                   /\ events[Len(events)] = Event(AC_CHARGING_FINISHED, NoCurrent)
    /\ LET st == [ Locals EXCEPT !.charging_state = AC_OK,
                                 !.currents = << 10, 15, 20, 25 >>,
                                 !.active_current = 30 ]
           hi == program_charging(st, TRUE, FALSE, 567, CHARGING, "ok")
           lo == program_charging(st, TRUE, FALSE, 565, CHARGING, "ok")
       IN  /\ hi.active_current = 25
           /\ hi.events = << Event(AC_CURRENT_CHANGED, 25) >>
           /\ lo = st

C15_Witness ==
    /\ Successful
    /\ pre.charging_state = AC_OK
    /\ pre.active_current = 10
    /\ pre.currents = << >>
    /\ sample.v = 540
    /\ charging_state = AC_DONE

\* C16: an advance commands its current at most once; an accepted command
\* is reported by one AC_CURRENT_CHANGED with that current and no error; a
\* failed one (result not ok, or InverterError) by one call of the error
\* handler and no AC_CURRENT_CHANGED, leaves the charging state as the
\* evaluation set it, and its current, taken from the remaining currents,
\* is above all that remain, so that it is not commanded again in this ramp
C16_CommandReporting ==
    /\ Cardinality(SetCurrentCommands) <= 1
    /\ SetCurrentCommands = {}
          => errors = << >> /\ Emitted(AC_CURRENT_CHANGED) = 0
    /\ \A i \in SetCurrentCommands :
          LET c == commands[i]
          IN  /\ c.arg = active_current
              /\ c.arg \in Range(IF ramps # << >> THEN ramps[1] ELSE pre.currents)
              /\ \A x \in Range(currents) : x < c.arg
              /\ c.result = "ok"
                    => /\ Emitted(AC_CURRENT_CHANGED) = 1
                       /\ events[Len(events)] = Event(AC_CURRENT_CHANGED, c.arg)
                       /\ errors = << >>
              /\ c.result \in { "notok", "InverterError" }
                    => /\ Len(errors) = 1
                       /\ Emitted(AC_CURRENT_CHANGED) = 0
                       /\ raised = None
                       /\ charging_state =
                             IF sample.pd = "Charge" THEN AC_OK ELSE AC_WAITING
    /\ currents # << >>
          => \A res \in { "notok", "InverterError" } :
                LET st == ac_charging_next_current(Locals, res)
                IN  /\ st.charging_state = charging_state
                    /\ Len(st.errors) = 1
                    /\ st.events = << >>
                    /\ Len(st.commands) = 1

C16_Witness ==
    /\ \E i \in SetCurrentCommands : commands[i].result = "notok"
    /\ ramps = << >>
    /\ pre.charging_state = AC_OK
    /\ charging_state = AC_OK
    /\ active_current = 20
    /\ currents = << 10 >>
    /\ errors = << 20 >>

\* C19: once stop() has set the flag at most one more iteration begins; the
\* step of stop() changes nothing but the flag, so that the iteration in
\* progress is not cut short; the loop then ends; and once it has ended by
\* the flag nothing changes any more
C19_CooperativeShutdown ==
    /\ [](polls_after_stop <= 1)
    /\ [][interrupted' # interrupted
             => interrupted' /\ UNCHANGED << pc, currents, active_current,
                    battery_state, charging_state, events, battery_events,
                    errors, commands >>]_vars
    /\ [][pc = "stopped" => UNCHANGED << pc, currents, active_current,
                    battery_state, charging_state, events, battery_events,
                    errors, commands >>]_vars
    /\ (interrupted /\ pc \in { "check", "body" }) ~> (pc \in { "stopped", "crashed" })
    /\ (interrupted /\ pc = "body") ~> (polls_after_stop = 1)

C19_Witness ==
    /\ pc = "stopped"
    /\ polls_after_stop = 1
    /\ status = "ok"
    /\ events # << >>

\* C20: the step that leaves the start of run has fetched the allowed
\* currents first; when the device answered and one of the two bounds is not
\* in its list, run ends with RuntimeError having issued no other command and
\* called no handler; when both bounds are in the list, get-rated is the next
\* command and, once it is answered, the loop condition is reached with
\* charging_state NOT_CHARGING and battery_state NORMAL
C20_StartupFailsFast ==
    [][(pc = "start" /\ pc' # "start") =>
        LET fetched == commands'[1].result = "ok"
            members == /\ max_ac_current \in Range(allowed_currents')
                       /\ min_ac_current \in Range(allowed_currents')
        IN  /\ commands' # << >>
            /\ commands'[1].command = "get-allowed-ac-charging-currents"
            /\ (fetched /\ ~members) =>
                  /\ pc' = "aborted"
                  /\ raised' = "RuntimeError"
                  /\ Len(commands') = 1
                  /\ events' = << >> /\ battery_events' = << >>
                  /\ errors' = << >> /\ ~lvp_called'
                  /\ charging_state' = charging_state
                  /\ battery_state' = battery_state
            /\ (fetched /\ members) =>
                  /\ Len(commands') = 2
                  /\ commands'[2].command = "get-rated"
                  /\ commands'[2].result = "ok" =>
                        /\ pc' = "check"
                        /\ raised' = None
                        /\ charging_state' = NOT_CHARGING
                        /\ battery_state' = NORMAL
                        /\ events' = << >> /\ battery_events' = << >>
                        /\ errors' = << >>]_vars

\* run has refused a range whose upper bound the device does not list
C20_Witness ==
    /\ pc = "aborted"
    /\ raised = "RuntimeError"
    /\ allowed_currents # << >>
    /\ max_ac_current \notin Range(allowed_currents)
    /\ min_ac_current \in Range(allowed_currents)
    /\ Len(commands) = 1

\* a caller is between the entry and the exit of the with block
InClient(t) == wpc[t] \in { "format", "exec", "loads", "create" }

\* C17: at most one caller of exec is inside the with block, from the call
\* that sets the format to the end of the reconnect, and that caller holds
\* the lock; so a caller in create() is the only one that uses the client
C17_Serialised ==
    /\ \A t \in Callers : InClient(t) => lock = t
    /\ \A t, u \in Callers : (InClient(t) /\ InClient(u)) => t = u
    /\ \A t, u \in Callers : (wpc[t] = "create" /\ u # t) => ~InClient(u)

\* one caller reconnects while another waits for the lock
C17_Witness ==
    \E t, u \in Callers : wpc[t] = "create" /\ wpc[u] = "lock"

\* a call of exec has ended
Ended(t) == wpc[t] = "idle" /\ wresult[t] # NoFailure

\* C18 as stated: every call that failed, InverterError included, has made
\* one reconnect attempt and raised the original failure; a call that
\* succeeded has made none
C18_EveryFailureReconnects ==
    \A t \in Callers : Ended(t) =>
        IF wresult[t] = Response
        THEN wcreates[t] = << >>
        ELSE Len(wcreates[t]) = 1 /\ wresult[t] = wfailure[t]

\* C18, amended: a call that failed with anything but InverterError has made
\* exactly one reconnect attempt, whether or not that attempt succeeded, and
\* has raised the original failure; a call that failed with InverterError
\* has raised it with no reconnect attempt; a call that succeeded has made
\* none
C18_ReconnectUnlessInverterError ==
    \A t \in Callers : Ended(t) =>
        CASE wresult[t] = Response -> wcreates[t] = << >> /\ wfailure[t] = NoFailure
          [] wresult[t][1] = "InverterError" ->
                wcreates[t] = << >> /\ wresult[t] = wfailure[t]
          [] OTHER ->
                /\ Len(wcreates[t]) = 1
                /\ wresult[t] = wfailure[t]
                /\ wresult[t][2] # "create"

\* a call whose client call raised and whose reconnect failed as well
C18_Witness ==
    \E t \in Callers :
        /\ Ended(t)
        /\ wresult[t] = Failure("Exception", "exec")
        /\ wcreates[t] = << "Exception" >>

\* C21: an iteration whose evaluation has emitted
\* AC_CHARGING_UNAVAILABLE_BECAUSE_SOLAR ends in AC_BUT_SOLAR, and an
\* iteration that started in NOT_CHARGING, AC_OK or AC_WAITING on a sample
\* with AC and solar does not end in AC_OK or AC_WAITING
C21_SolarEndsInAcButSolar ==
    Successful =>
        /\ Emitted(AC_CHARGING_UNAVAILABLE_BECAUSE_SOLAR) > 0
              => charging_state = AC_BUT_SOLAR
        /\ ( /\ sample.ac
             /\ sample.solar
             /\ pre.charging_state \in { NOT_CHARGING, AC_OK, AC_WAITING } )
              => charging_state \notin { AC_OK, AC_WAITING }

\* C22: an iteration that starts in AC_DONE on a sample with AC present stays
\* in AC_DONE, calls no charging handler and issues no set command, whatever
\* the sample's other values; on a sample with AC absent it ends in
\* NOT_CHARGING having emitted AC_DISCONNECTED and nothing else; AC_DONE is
\* left by no other step, and a further sample with AC absent emits nothing
C22_DoneUntilDisconnect ==
    /\ (status = "ok" /\ pre.charging_state = AC_DONE /\ sample.ac)
          => /\ charging_state = AC_DONE
             /\ events = << >>
             /\ errors = << >>
             /\ SetCurrentCommands = {}
             /\ currents = pre.currents
             /\ active_current = pre.active_current
    /\ (Successful /\ pre.charging_state = AC_DONE /\ ~sample.ac)
          => /\ charging_state = NOT_CHARGING
             /\ events = << Event(AC_DISCONNECTED, NoCurrent) >>
             /\ SetCurrentCommands = {}
    /\ (pre.charging_state = AC_DONE /\ charging_state # AC_DONE)
          => Successful /\ ~sample.ac
    /\ (Successful /\ pre.charging_state = NOT_CHARGING /\ ~sample.ac)
          => charging_state = NOT_CHARGING /\ events = << >>

\* the disconnect after a finished ramp
C22_Witness ==
    /\ Successful
    /\ pre.charging_state = AC_DONE
    /\ ~sample.ac
    /\ charging_state = NOT_CHARGING
    /\ Emitted(AC_DISCONNECTED) = 1

====
